---- MODULE Spec2Model ----
(***************************************************************************)
(* A model of the sample-data subcommands of src/all-data/tsutil.py:       *)
(* merge-sampledata, combine-sampledata, make-sampledata-compatible and    *)
(* the two benchmark subcommands.  A SampleData file is a record holding   *)
(* the fields the handlers read (sequence_length, num_samples,             *)
(* sites_position, sites_alleles, sites_genotypes); the output file is the *)
(* record "samples", which logs the calls made on tsinfer.SampleData.      *)
(* Site metadata, which the handlers copy from the first file without      *)
(* reading it, is not represented.                                         *)
(***************************************************************************)
EXTENDS Integers, Sequences, FiniteSets, TLC

\* Bounds of the model: the lines of args.input, and the records of a benchmark input.
MaxFiles == 2
MaxRecords == 4

\* The site positions of the input files.
Positions == {1, 2}

\* tskit.MISSING_DATA
MISSING_DATA == -1

VARIABLES
  command,           \* the subcommand main() dispatches to
  num_inputs,        \* the number of lines of the file args.input
  pc,                \* the handler's position, or the exception that ended it
  sampledata_files, sequence_length, total_samples,
  samples,           \* the output SampleData file
  merged_pos, anc_alleles, deriv_alleles, biallelic_sites,
  combined_pos_df, combined_genos,
  target_sd, new_names,
  output_exists,     \* whether a file exists at args.output (make-sampledata-compatible)
  newfile,           \* what has been written to args.output (make-sampledata-compatible)
  num_variants,      \* args.num_variants: <<>> for None, <<N>> for --num-variants N
  num_records,       \* the sites of the tree sequence, or the records of the VCF
  count,             \* num_variants (benchmark-tskit), count (benchmark-vcf)
  reported           \* the count the benchmark prints: <<>> until printed

args       == <<command, num_inputs, num_variants, num_records, output_exists>>
loaded     == <<sampledata_files, sequence_length, total_samples>>
mergeVars  == <<merged_pos, anc_alleles, deriv_alleles, biallelic_sites>>
compatVars == <<target_sd, new_names, newfile>>
benchVars  == <<count, reported>>

vars == <<args, pc, loaded, samples, mergeVars, combined_pos_df, combined_genos,
          compatVars, benchVars>>

(***************************************************************************)
(* Input data.                                                             *)
(***************************************************************************)

\* The sequence lengths of the input files, larger than every site position.
SequenceLengths == {3, 4}

\* The allele lists of a site: the ancestral allele, then the derived one if any.
\* Alleles are single nucleotides.
SiteAlleles == {<<"A">>, <<"A", "C">>, <<"A", "T">>, <<"G", "C">>}

RECURSIVE SortedSeq(_)
\* np.sort of a set of numbers.
SortedSeq(S) ==
  IF S = {} THEN <<>>
  ELSE LET m == CHOOSE x \in S : \A y \in S : x <= y
       IN  <<m>> \o SortedSeq(S \ {m})

\* The individuals of the file on line `index` of the input.  The handlers add
\* every individual with ploidy=2, so a file holds two samples per individual.
NumIndividuals(index) == 1 + (index % 2)

\* The genotype the file with this index records for a sample at a position.
Genotype(index, position, sample) == (index + position + sample) % 2

\* The SampleData files tsinfer.load can return for line `index` of the input:
\* strictly increasing site positions, one allele list and one genotype row per site.
SampleDataFiles(index) ==
  UNION { { [sequence_length |-> L,
             num_samples     |-> 2 * NumIndividuals(index),
             sites_position  |-> SortedSeq(P),
             sites_alleles   |-> al,
             sites_genotypes |-> [s \in 1..Cardinality(P) |->
                                    [j \in 1..(2 * NumIndividuals(index)) |->
                                       Genotype(index, SortedSeq(P)[s], j)]]] :
              L \in SequenceLengths,
              al \in [1..Cardinality(P) -> SiteAlleles] } :
          P \in SUBSET Positions }

(***************************************************************************)
(* numpy helpers.                                                          *)
(***************************************************************************)

Range(seq) == {seq[i] : i \in DOMAIN seq}

\* np.isin(seq, values)
isin(seq, values) == [i \in DOMAIN seq |-> seq[i] \in values]

RECURSIVE MaskFrom(_, _, _)
MaskFrom(seq, mask, i) ==
  IF i > Len(seq) THEN <<>>
  ELSE (IF mask[i] THEN <<seq[i]>> ELSE <<>>) \o MaskFrom(seq, mask, i + 1)

\* seq[mask] for a boolean mask of the same length
Mask(seq, mask) == MaskFrom(seq, mask, 1)

\* np.full((rows, columns), value)
Full(rows, columns, value) == [r \in 1..rows |-> [c \in 1..columns |-> value]]

Min(a, b) == IF a <= b THEN a ELSE b

RECURSIVE SumSamples(_, _)
\* the value of cur_sample when the loop over the files reaches file i
SumSamples(files, i) ==
  IF i <= 1 THEN 0 ELSE SumSamples(files, i - 1) + files[i - 1].num_samples

(***************************************************************************)
(* The output file: the calls made on tsinfer.SampleData(path=args.output).*)
(* populations and individuals list the input files whose populations and  *)
(* individuals were added, in the order of the calls.                      *)
(***************************************************************************)

NoOutput == [created |-> FALSE, populations |-> <<>>, individuals |-> <<>>, sites |-> <<>>]

NewOutput(files) ==
  [created     |-> TRUE,
   populations |-> [i \in 1..Len(files) |-> i],
   individuals |-> [i \in 1..Len(files) |-> i],
   sites       |-> <<>>]

(***************************************************************************)
(* run_merge_sampledata                                                    *)
(***************************************************************************)

\* [allele[0] for allele in sampledata.sites_alleles[:][pos_bool]]
AncestralAlleles(sampledata, pos_bool) ==
  LET al == Mask(sampledata.sites_alleles, pos_bool)
  IN  [k \in DOMAIN al |-> al[k][1]]

\* [allele[1] if len(allele) > 1 else "" for allele in sampledata.sites_alleles[:][pos_bool]]
DerivedAlleles(sampledata, pos_bool) ==
  LET al == Mask(sampledata.sites_alleles, pos_bool)
  IN  [k \in DOMAIN al |-> IF Len(al[k]) > 1 THEN al[k][2] ELSE ""]

\* np.sort(list(set.intersection(*map(set, [sampledata.sites_position[:] ...]))))
MergedPositions(files) ==
  SortedSeq({p \in Range(files[1].sites_position) :
               \A i \in DOMAIN files : p \in Range(files[i].sites_position)})

\* deriv_alleles[no_deriv_bool] = cur_derived[no_deriv_bool]
FillDerived(deriv, cur) ==
  [k \in DOMAIN deriv |-> IF deriv[k] = "" \/ cur[k] = "" THEN cur[k] ELSE deriv[k]]

\* A filter that never drops a site
StillBiallelicAlways(biallelic, deriv, cur) == biallelic

\* np.logical_and(biallelic_sites, deriv_alleles == cur_derived)
StillBiallelic(biallelic, deriv, cur) ==
  [k \in DOMAIN biallelic |-> biallelic[k] /\ deriv[k] = cur[k]]

RECURSIVE CompareAlleles(_, _, _, _, _, _)
\* The loop over sampledata_files[1:], from file i on.  ok is FALSE when the
\* assertion on the ancestral alleles fails.
CompareAlleles(files, i, positions, anc, deriv, biallelic) ==
  IF i > Len(files)
  THEN [ok |-> TRUE, deriv_alleles |-> deriv, biallelic_sites |-> biallelic]
  ELSE LET pos_bool == isin(files[i].sites_position, Range(positions))
           cur      == DerivedAlleles(files[i], pos_bool)
           filled   == FillDerived(deriv, cur)
       IN  IF AncestralAlleles(files[i], pos_bool) # anc
           THEN [ok |-> FALSE, deriv_alleles |-> deriv, biallelic_sites |-> biallelic]
           ELSE CompareAlleles(files, i + 1, positions, anc, filled,
                               StillBiallelic(biallelic, filled, cur))

\* merged_pos = merged_pos[biallelic_sites]
KeepBiallelic(positions, biallelic) == Mask(positions, biallelic)

\* cur_sample never advanced
FirstColumnZero(files, index) == 0

\* The block of columns file `index` fills: cur_sample:cur_sample + num_samps
FirstColumn(files, index) == SumSamples(files, index)

RECURSIVE MergeGenotypes(_, _, _, _)
\* The loop filling combined_genos, from file `index` on:
\* combined_genos[:, cur_sample:cur_sample + num_samps] = sites_genotypes[:][pos_bool]
MergeGenotypes(files, index, positions, genos) ==
  IF index > Len(files) THEN genos
  ELSE LET pos_bool   == isin(files[index].sites_position, Range(positions))
           rows       == Mask(files[index].sites_genotypes, pos_bool)
           cur_sample == FirstColumn(files, index)
           num_samps  == files[index].num_samples
       IN  MergeGenotypes(files, index + 1, positions,
             [r \in DOMAIN genos |->
                [c \in DOMAIN genos[r] |->
                   IF c > cur_sample /\ c <= cur_sample + num_samps
                   THEN rows[r][c - cur_sample] ELSE genos[r][c]]])

\* Rows that take their position from the first file, index by index
MergeRowsFirstFile(positions, genos, anc, deriv) ==
  [k \in 1..Min(Min(Len(positions), Len(genos)), Min(Len(anc), Len(deriv))) |->
     [position |-> sampledata_files[1].sites_position[k], genotypes |-> genos[k],
      alleles |-> <<anc[k], deriv[k]>>]]

\* zip(merged_pos, combined_genos, anc_alleles, deriv_alleles, combined_metadata),
\* one samples.add_site per row; zip stops at the shortest sequence.
MergeRows(positions, genos, anc, deriv) ==
  [k \in 1..Min(Min(Len(positions), Len(genos)), Min(Len(anc), Len(deriv))) |->
     [position |-> positions[k], genotypes |-> genos[k], alleles |-> <<anc[k], deriv[k]>>]]

\* No assertion
LengthUnchecked(expected, sampledata) == TRUE

\* assert sequence_length == sampledata_files[index].sequence_length
LengthAssertion(expected, sampledata) == expected = sampledata.sequence_length

\* The state every handler starts from.
Start ==
  /\ pc = "start"
  /\ sampledata_files = <<>>
  /\ sequence_length = 0
  /\ total_samples = 0
  /\ samples = NoOutput
  /\ merged_pos = <<>>
  /\ anc_alleles = <<>>
  /\ deriv_alleles = <<>>
  /\ biallelic_sites = <<>>
  /\ combined_pos_df = <<>>
  /\ combined_genos = <<>>
  /\ target_sd = <<>>
  /\ new_names = <<>>
  /\ newfile = <<>>
  /\ count = 0
  /\ reported = <<>>

\* The arguments of a subcommand that reads a list of SampleData files.
ListArgs ==
  /\ num_inputs \in 1..MaxFiles
  /\ num_variants = <<>>
  /\ num_records = 0

\* One iteration of the loop over the lines of args.input (sequence_length 0: None).
MergeLoad ==
  /\ command = "merge-sampledata" /\ pc = "start"
  /\ Len(sampledata_files) < num_inputs
  /\ \E f \in SampleDataFiles(Len(sampledata_files)) :
       /\ sampledata_files' = Append(sampledata_files, f)
       /\ total_samples' = total_samples + f.num_samples
       /\ IF sequence_length # 0
          THEN /\ sequence_length' = sequence_length
               /\ pc' = IF LengthAssertion(sequence_length, f) THEN "start"
                        ELSE "AssertionError"
          ELSE /\ sequence_length' = f.sequence_length
               /\ pc' = "start"
  /\ UNCHANGED <<args, samples, mergeVars, combined_pos_df, combined_genos,
                 compatVars, benchVars>>

\* with tsinfer.SampleData(path=args.output, ...) as samples: populations, individuals
MergeOpenOutput ==
  /\ command = "merge-sampledata" /\ pc = "start"
  /\ Len(sampledata_files) = num_inputs
  /\ samples' = NewOutput(sampledata_files)
  /\ pc' = "select"
  /\ UNCHANGED <<args, loaded, mergeVars, combined_pos_df, combined_genos,
                 compatVars, benchVars>>

\* merged_pos, the allele arrays and the biallelic filter
MergeSelectSites ==
  /\ command = "merge-sampledata" /\ pc = "select"
  /\ LET positions == MergedPositions(sampledata_files)
         pos_bool  == isin(sampledata_files[1].sites_position, Range(positions))
         anc       == AncestralAlleles(sampledata_files[1], pos_bool)
         deriv     == DerivedAlleles(sampledata_files[1], pos_bool)
         res       == CompareAlleles(sampledata_files, 2, positions, anc, deriv,
                                     [k \in DOMAIN positions |-> TRUE])
     IN  /\ anc_alleles' = anc
         /\ deriv_alleles' = res.deriv_alleles
         /\ biallelic_sites' = res.biallelic_sites
         /\ merged_pos' = IF res.ok THEN KeepBiallelic(positions, res.biallelic_sites)
                          ELSE positions
         /\ pc' = IF res.ok THEN "genotypes" ELSE "AssertionError"
  /\ UNCHANGED <<args, loaded, samples, combined_pos_df, combined_genos,
                 compatVars, benchVars>>

\* combined_genos filled file by file
MergeFillGenotypes ==
  /\ command = "merge-sampledata" /\ pc = "genotypes"
  /\ combined_genos' = MergeGenotypes(sampledata_files, 1, merged_pos,
                                      Full(Len(merged_pos), total_samples, MISSING_DATA))
  /\ pc' = "add_sites"
  /\ UNCHANGED <<args, loaded, samples, mergeVars, combined_pos_df, compatVars, benchVars>>

\* the loop of samples.add_site calls, and the end of the with block
MergeAddSites ==
  /\ command = "merge-sampledata" /\ pc = "add_sites"
  /\ samples' = [samples EXCEPT !.sites =
                   MergeRows(merged_pos, combined_genos, anc_alleles, deriv_alleles)]
  /\ pc' = "done"
  /\ UNCHANGED <<args, loaded, mergeVars, combined_pos_df, combined_genos,
                 compatVars, benchVars>>

NextMerge ==
  MergeLoad \/ MergeOpenOutput \/ MergeSelectSites \/ MergeFillGenotypes \/ MergeAddSites

InitMerge == command = "merge-sampledata" /\ ListArgs /\ output_exists = FALSE /\ Start

SpecMerge == InitMerge /\ [][NextMerge]_vars

(***************************************************************************)
(* run_combine_sampledata                                                  *)
(*                                                                         *)
(* A data frame is a sequence of rows.  A row of combined_pos_df holds     *)
(* Position, Ancestral, Derived (the column "Derived Allele"), SiteID[k]   *)
(* (the column "<k-1> Site ID": <<id>>, or <<>> for NaN) and DerivedOf[k]  *)
(* (the column "Derived Allele<k-1>" of file k > 1).  Files are numbered   *)
(* from 1 here, from 0 in the code.                                        *)
(***************************************************************************)

\* np.nan in a column of alleles
NaN == "nan"

\* make_site_df(samples, file_index)
make_site_df(sampledata) ==
  [s \in DOMAIN sampledata.sites_position |->
     [SiteID    |-> s - 1,
      Position  |-> sampledata.sites_position[s],
      Ancestral |-> sampledata.sites_alleles[s][1],
      Derived   |-> IF Len(sampledata.sites_alleles[s]) > 1
                    THEN sampledata.sites_alleles[s][2] ELSE NaN]]

\* The merge keys of a frame's rows: on=["Position", "Ancestral Allele"]
Keys(rows) == {<<r.Position, r.Ancestral>> : r \in rows}

\* The rows with this key (none, or one: a file's positions are unique)
RowsAt(rows, key) == {r \in rows : <<r.Position, r.Ancestral>> = key}

\* series.fillna(other)
fillna(value, other) == IF value = NaN THEN other ELSE value

\* how="inner"
InnerJoinKeys(combined, df) == Keys(combined) \cap Keys(df)

\* how="outer": the union of the keys of both frames
JoinKeys(combined, df) == Keys(combined) \cup Keys(df)

\* pd.merge(combined_pos_df, df, how="outer", suffixes=("", index), on=[...]) and the
\* fillna of "Derived Allele", for file k: the rows of the result, one per key.
\* (The order of the rows is set by sort_values, after the last merge.)
OuterMerge(combined, df, k) ==
  { LET L == RowsAt(combined, key)
        R == RowsAt(df, key)
        left  == CHOOSE r \in L : TRUE
        right == CHOOSE r \in R : TRUE
        derived_k == IF R = {} THEN NaN ELSE right.Derived
    IN  [Position  |-> key[1],
         Ancestral |-> key[2],
         Derived   |-> fillna(IF L = {} THEN NaN ELSE left.Derived, derived_k),
         SiteID    |-> [i \in 1..k |->
                          IF i < k THEN (IF L = {} THEN <<>> ELSE left.SiteID[i])
                          ELSE (IF R = {} THEN <<>> ELSE <<right.SiteID>>)],
         DerivedOf |-> [i \in 1..k |->
                          IF i < k THEN (IF L = {} THEN NaN ELSE left.DerivedOf[i])
                          ELSE derived_k]] :
    key \in JoinKeys(combined, df) }

RECURSIVE SortedByPosition(_)
\* The orders sort_values(by=["Position"]) can leave the rows in: the sort is
\* not stable, so rows of equal Position come in either order.
SortedByPosition(rows) ==
  IF rows = {} THEN {<<>>}
  ELSE LET first == {r \in rows : \A q \in rows : r.Position <= q.Position}
       IN  UNION {{<<r>> \o rest : rest \in SortedByPosition(rows \ {r})} : r \in first}

\* index == 0: combined_pos_df = df
FirstFrame(sampledata) ==
  {[Position |-> r.Position, Ancestral |-> r.Ancestral, Derived |-> r.Derived,
    SiteID |-> <<(<<r.SiteID>>)>>, DerivedOf |-> <<r.Derived>>] :
     r \in Range(make_site_df(sampledata))}

RECURSIVE MergeFrames(_, _, _)
\* The loop over sampledata_pos_dfs, from file k on; combined is combined_pos_df.
MergeFrames(files, k, combined) ==
  IF k > Len(files) THEN combined
  ELSE MergeFrames(files, k + 1, OuterMerge(combined, Range(make_site_df(files[k])), k))

RECURSIVE WhereFrom(_, _)
\* np.where(mask)[0], as indexes from 1
WhereFrom(mask, i) ==
  IF i > Len(mask) THEN <<>>
  ELSE (IF mask[i] THEN <<i>> ELSE <<>>) \o WhereFrom(mask, i + 1)

\* derived_allele_exists and multiallelic, for file k > 1
Multiallelic(df, k) ==
  [r \in DOMAIN df |-> df[r].DerivedOf[k] # NaN /\ df[r].Derived # df[r].DerivedOf[k]]

\* No genotype marked missing
MarkNothing(genos, site_ids) == genos

\* genos with the derived state (1) of the multiallelic sites marked missing
MarkMissing(genos, site_ids) ==
  [s \in DOMAIN genos |->
     IF (s - 1) \in site_ids
     THEN [j \in DOMAIN genos[s] |-> IF genos[s][j] = 1 THEN MISSING_DATA ELSE genos[s][j]]
     ELSE genos[s]]

\* The genotypes file k contributes: sites_genotypes[:], masked when index != 0
CombineFileGenotypes(df, sampledata, k) ==
  IF k = 1 THEN sampledata.sites_genotypes
  ELSE LET multiallelic == Multiallelic(df, k)
           site_ids == {df[r].SiteID[k][1] : r \in {x \in DOMAIN df : multiallelic[x]}}
       IN  MarkMissing(sampledata.sites_genotypes, site_ids)

RECURSIVE CombineGenotypes(_, _, _, _)
\* The loop filling combined_genos, from file k on:
\* combined_genos[pos_bool, cur_sample:cur_sample + num_samps] = genos
CombineGenotypes(files, k, df, genos) ==
  IF k > Len(files) THEN genos
  ELSE LET pos_bool   == WhereFrom([r \in DOMAIN df |-> df[r].SiteID[k] # <<>>], 1)
           rows       == CombineFileGenotypes(df, files[k], k)
           cur_sample == FirstColumn(files, k)
           num_samps  == files[k].num_samples
           row_of     == [r \in DOMAIN df |->
                            {t \in DOMAIN pos_bool : pos_bool[t] = r}]
       IN  CombineGenotypes(files, k + 1, df,
             [r \in DOMAIN genos |->
                [c \in DOMAIN genos[r] |->
                   IF row_of[r] # {} /\ c > cur_sample /\ c <= cur_sample + num_samps
                   THEN rows[CHOOSE t \in row_of[r] : TRUE][c - cur_sample]
                   ELSE genos[r][c]]])

\* zip(combined_pos_df[["Position"]].values, combined_genos, combined_alleles, ...),
\* one samples.add_site per row
CombineRows(df, genos) ==
  [r \in 1..Min(Len(df), Len(genos)) |->
     [position  |-> df[r].Position,
      genotypes |-> genos[r],
      alleles   |-> <<df[r].Ancestral, df[r].Derived>>]]

\* One iteration of the loop over the lines of args.input.
CombineLoad ==
  /\ command = "combine-sampledata" /\ pc = "start"
  /\ Len(sampledata_files) < num_inputs
  /\ \E f \in SampleDataFiles(Len(sampledata_files)) :
       /\ sampledata_files' = Append(sampledata_files, f)
       /\ total_samples' = total_samples + f.num_samples
       /\ IF sequence_length # 0
          THEN /\ sequence_length' = sequence_length
               /\ pc' = IF LengthAssertion(sequence_length, f) THEN "start"
                        ELSE "AssertionError"
          ELSE /\ sequence_length' = f.sequence_length
               /\ pc' = "start"
  /\ UNCHANGED <<args, samples, mergeVars, combined_pos_df, combined_genos,
                 compatVars, benchVars>>

\* with tsinfer.SampleData(path=args.output, ...) as samples: populations, individuals
CombineOpenOutput ==
  /\ command = "combine-sampledata" /\ pc = "start"
  /\ Len(sampledata_files) = num_inputs
  /\ samples' = NewOutput(sampledata_files)
  /\ pc' = "merge_frames"
  /\ UNCHANGED <<args, loaded, mergeVars, combined_pos_df, combined_genos,
                 compatVars, benchVars>>

\* the outer joins of the site frames, and sort_values(by=["Position"])
CombineMergeFrames ==
  /\ command = "combine-sampledata" /\ pc = "merge_frames"
  /\ combined_pos_df' \in
       SortedByPosition(MergeFrames(sampledata_files, 2, FirstFrame(sampledata_files[1])))
  /\ pc' = "genotypes"
  /\ UNCHANGED <<args, loaded, samples, mergeVars, combined_genos, compatVars, benchVars>>

\* combined_genos filled file by file
CombineFillGenotypes ==
  /\ command = "combine-sampledata" /\ pc = "genotypes"
  /\ combined_genos' = CombineGenotypes(sampledata_files, 1, combined_pos_df,
                         Full(Len(combined_pos_df), total_samples, MISSING_DATA))
  /\ pc' = "add_sites"
  /\ UNCHANGED <<args, loaded, samples, mergeVars, combined_pos_df, compatVars, benchVars>>

\* the loop of samples.add_site calls, and the end of the with block
CombineAddSites ==
  /\ command = "combine-sampledata" /\ pc = "add_sites"
  /\ samples' = [samples EXCEPT !.sites = CombineRows(combined_pos_df, combined_genos)]
  /\ pc' = "done"
  /\ UNCHANGED <<args, loaded, mergeVars, combined_pos_df, combined_genos,
                 compatVars, benchVars>>

NextCombine ==
  \/ CombineLoad \/ CombineOpenOutput \/ CombineMergeFrames
  \/ CombineFillGenotypes \/ CombineAddSites

InitCombine == command = "combine-sampledata" /\ ListArgs /\ output_exists = FALSE /\ Start

SpecCombine == InitCombine /\ [][NextCombine]_vars

\* combine-sampledata or merge-sampledata
InitSampledata ==
  /\ command \in {"combine-sampledata", "merge-sampledata"}
  /\ ListArgs /\ output_exists = FALSE /\ Start

SpecSampledata == InitSampledata /\ [][NextMerge \/ NextCombine]_vars

(***************************************************************************)
(* make_sampledata_compatible                                              *)
(***************************************************************************)

\* The lines of args.input are the paths InputStems[index + 1] \o ".samples"
InputStems == <<"a", "b", "c", "d", "e">>

\* fn[:-len(".samples")] + "deleted.samples"
DeletedName(index) == InputStems[index + 1] \o "deleted.samples"

\* cur_sd.delete(sites=np.where(~np.isin(cur_sd.sites_position[:],
\*                                        target_sd.sites_position[:]))[0])
DeleteSites(cur_sd, target) ==
  LET keep == isin(cur_sd.sites_position, Range(target.sites_position))
  IN  [cur_sd EXCEPT !.sites_position  = Mask(cur_sd.sites_position, keep),
                     !.sites_alleles   = Mask(cur_sd.sites_alleles, keep),
                     !.sites_genotypes = Mask(cur_sd.sites_genotypes, keep)]

\* The lines of args.input read so far
LinesRead == Len(target_sd) + Len(new_names)

\* One iteration of the loop over the lines of args.input.
CompatLoad ==
  /\ command = "make-sampledata-compatible" /\ pc = "start"
  /\ LinesRead < num_inputs
  /\ \E f \in SampleDataFiles(LinesRead) :
       IF LinesRead = 0
       THEN /\ target_sd' = <<f>>
            /\ UNCHANGED <<sampledata_files, new_names>>
       ELSE /\ sampledata_files' = Append(sampledata_files, DeleteSites(f, target_sd[1]))
            /\ new_names' = Append(new_names, DeletedName(LinesRead))
            /\ UNCHANGED target_sd
  /\ UNCHANGED <<args, pc, sequence_length, total_samples, samples, mergeVars,
                 combined_pos_df, combined_genos, newfile, benchVars>>

\* with open(args.output, "r") as newfile: newfile.writelines(new_names)
\* The file is opened for reading: open fails when it does not exist, and
\* writelines fails on a file that is not writable.
CompatWriteNames ==
  /\ command = "make-sampledata-compatible" /\ pc = "start"
  /\ LinesRead = num_inputs
  /\ pc' = IF output_exists THEN "UnsupportedOperation" ELSE "FileNotFoundError"
  /\ UNCHANGED <<args, loaded, samples, mergeVars, combined_pos_df, combined_genos,
                 compatVars, benchVars>>

NextCompat == CompatLoad \/ CompatWriteNames

InitCompat ==
  /\ command = "make-sampledata-compatible"
  /\ ListArgs /\ output_exists \in BOOLEAN /\ Start

SpecCompat == InitCompat /\ [][NextCompat]_vars

(***************************************************************************)
(* run_benchmark_tskit (the loop over the variants) and run_benchmark_vcf  *)
(***************************************************************************)

\* for var in ts.variants(samples=ts.samples()): one more variant is counted
BenchmarkTskitVariant ==
  /\ command = "benchmark-tskit" /\ pc = "start"
  /\ count < num_records
  /\ <<count>> # num_variants
  /\ count' = count + 1
  /\ UNCHANGED <<args, pc, loaded, samples, mergeVars, combined_pos_df, combined_genos,
                 compatVars, reported>>

\* the loop ends, or breaks at num_variants == args.num_variants; the count is printed
BenchmarkTskitReport ==
  /\ command = "benchmark-tskit" /\ pc = "start"
  /\ count = num_records \/ <<count>> = num_variants
  /\ reported' = <<count>>
  /\ pc' = "done"
  /\ UNCHANGED <<args, loaded, samples, mergeVars, combined_pos_df, combined_genos,
                 compatVars, count>>

\* for record in records: count += 1
BenchmarkVcfRecord ==
  /\ command = "benchmark-vcf" /\ pc = "start"
  /\ count < num_records
  /\ count' = count + 1
  /\ UNCHANGED <<args, pc, loaded, samples, mergeVars, combined_pos_df, combined_genos,
                 compatVars, reported>>

\* the records are exhausted; the count is printed
BenchmarkVcfReport ==
  /\ command = "benchmark-vcf" /\ pc = "start"
  /\ count = num_records
  /\ reported' = <<count>>
  /\ pc' = "done"
  /\ UNCHANGED <<args, loaded, samples, mergeVars, combined_pos_df, combined_genos,
                 compatVars, count>>

NextBenchmark ==
  \/ BenchmarkTskitVariant \/ BenchmarkTskitReport
  \/ BenchmarkVcfRecord \/ BenchmarkVcfReport

\* --num-variants is absent (None) or a count; the input holds some records
InitBenchmark ==
  /\ command \in {"benchmark-tskit", "benchmark-vcf"}
  /\ num_inputs = 1
  /\ num_variants \in {<<>>} \cup {<<n>> : n \in 0..(MaxRecords + 1)}
  /\ num_records \in 0..MaxRecords
  /\ output_exists = FALSE
  /\ Start

SpecBenchmark == InitBenchmark /\ [][NextBenchmark]_vars

(***************************************************************************)
(* The claims.                                                             *)
(***************************************************************************)

PositionsOf(sampledata) == Range(sampledata.sites_position)

\* The site of a file at a position it holds
SiteAt(sampledata, p) ==
  CHOOSE s \in DOMAIN sampledata.sites_position : sampledata.sites_position[s] = p

AncestralAt(sampledata, p) == sampledata.sites_alleles[SiteAt(sampledata, p)][1]

\* The derived allele a file records at a position, "" when it records none
DerivedAt(sampledata, p) ==
  LET al == sampledata.sites_alleles[SiteAt(sampledata, p)]
  IN  IF Len(al) > 1 THEN al[2] ELSE ""

Files == DOMAIN sampledata_files

\* The positions every input file holds, and those some input file holds
Intersection == {p \in Positions : \A i \in Files : p \in PositionsOf(sampledata_files[i])}
Union == {p \in Positions : \E i \in Files : p \in PositionsOf(sampledata_files[i])}

\* Two files listed one after the other record different derived alleles at p
Conflict(p) ==
  \E i \in Files : /\ i + 1 \in Files
                   /\ DerivedAt(sampledata_files[i], p) # ""
                   /\ DerivedAt(sampledata_files[i + 1], p) # ""
                   /\ DerivedAt(sampledata_files[i], p) # DerivedAt(sampledata_files[i + 1], p)

MergeDone == command = "merge-sampledata" /\ pc = "done"
CombineDone == command = "combine-sampledata" /\ pc = "done"

C2_SitesEqualUnion ==
  CombineDone => Len(samples.sites) = Cardinality(Union)

\* The (position, ancestral allele) pairs of the input files' sites
SiteKeys ==
  UNION {{<<p, AncestralAt(sampledata_files[i], p)>> :
            i \in {k \in Files : p \in PositionsOf(sampledata_files[k])}} :
         p \in Positions}

\* The input files that hold a position agree on its ancestral allele
AncestralAgree == Cardinality(SiteKeys) = Cardinality(Union)

\* C2, amended: when the input files agree on the ancestral allele of every
\* position they share, combine-sampledata writes one site per distinct
\* position of the input files.
C2_SitesEqualUnionWhenAncestralAgree ==
  (CombineDone /\ AncestralAgree) => Len(samples.sites) = Cardinality(Union)

\* A combination of files that share a position and differ on others
C2_Witness ==
  /\ CombineDone
  /\ Len(sampledata_files) >= 2
  /\ AncestralAgree
  /\ Intersection # {}
  /\ Cardinality(Union) > Cardinality(Intersection)
  /\ Len(samples.sites) = Cardinality(Union)

RECURSIVE Before(_)
\* The samples of the files listed before file k
Before(k) == IF k <= 1 THEN 0 ELSE Before(k - 1) + sampledata_files[k - 1].num_samples

\* The (position, ancestral allele) of row r of the combined genotype matrix
RowKey(r) ==
  IF command = "merge-sampledata"
  THEN <<merged_pos[r], AncestralAt(sampledata_files[1], merged_pos[r])>>
  ELSE <<combined_pos_df[r].Position, combined_pos_df[r].Ancestral>>

\* File k holds a site with this position and ancestral allele
Holds(k, key) ==
  /\ key[1] \in PositionsOf(sampledata_files[k])
  /\ AncestralAt(sampledata_files[k], key[1]) = key[2]

\* The genotype file k records at a position for its j-th sample
GenotypeAt(k, p, j) ==
  sampledata_files[k].sites_genotypes[SiteAt(sampledata_files[k], p)][j]

\* C3: the combined genotype matrix has sum(num_samples) columns, and the
\* j-th sample of the k-th file is in column (samples of the files before k) + j
\* of every row: the column holds that sample's genotype at the row's site
\* (or MISSING_DATA in combine-sampledata).
C3_SampleColumns ==
  (command \in {"combine-sampledata", "merge-sampledata"} /\ pc \in {"add_sites", "done"}) =>
    \A r \in DOMAIN combined_genos :
      /\ Len(combined_genos[r]) = Before(Len(sampledata_files) + 1)
      /\ \A k \in Files : \A j \in 1..sampledata_files[k].num_samples :
           LET value == combined_genos[r][Before(k) + j]
           IN  IF Holds(k, RowKey(r))
               THEN \/ value = GenotypeAt(k, RowKey(r)[1], j)
                    \/ command = "combine-sampledata" /\ value = MISSING_DATA
               ELSE value = MISSING_DATA

\* Two files of several samples each, combined or merged into at least one row
C3_Witness ==
  /\ command \in {"combine-sampledata", "merge-sampledata"} /\ pc = "done"
  /\ Len(sampledata_files) >= 2
  /\ sampledata_files[1].num_samples >= 2
  /\ sampledata_files[2].num_samples >= 2
  /\ \E r \in DOMAIN combined_genos : Holds(1, RowKey(r)) /\ Holds(2, RowKey(r))

\* The columns of file k in the genotypes of an output site
Block(site, k) ==
  [j \in 1..sampledata_files[k].num_samples |-> site.genotypes[Before(k) + j]]

\* C4 as stated: in the output of combine-sampledata, the columns of a file
\* in which an output site does not appear are all MISSING_DATA, and the
\* columns of a file in which it appears carry the file's genotypes at that site.
C4_OuterJoin ==
  CombineDone =>
    \A r \in DOMAIN samples.sites : \A k \in Files :
      LET site == samples.sites[r]
      IN  IF Holds(k, <<site.position, site.alleles[1]>>)
          THEN \A j \in DOMAIN Block(site, k) :
                 Block(site, k)[j] = GenotypeAt(k, site.position, j)
          ELSE \A j \in DOMAIN Block(site, k) : Block(site, k)[j] = MISSING_DATA

\* File k records, at an output site it holds, a derived allele other than
\* the one written for the site
NewDerived(site, k) ==
  /\ DerivedAt(sampledata_files[k], site.position) # ""
  /\ DerivedAt(sampledata_files[k], site.position) # site.alleles[2]

\* C4, amended: in the output of combine-sampledata, the columns of a file that
\* holds no site with the output site's position and ancestral allele are all
\* MISSING_DATA; the columns of a file that holds it carry the file's genotypes
\* at that site, except that the genotypes 1 are MISSING_DATA where the file
\* records a derived allele other than the one written for the site.
C4_OuterJoinMasked ==
  CombineDone =>
    \A r \in DOMAIN samples.sites : \A k \in Files :
      LET site == samples.sites[r]
      IN  IF Holds(k, <<site.position, site.alleles[1]>>)
          THEN \A j \in DOMAIN Block(site, k) :
                 Block(site, k)[j] =
                   IF NewDerived(site, k) /\ GenotypeAt(k, site.position, j) = 1
                   THEN MISSING_DATA
                   ELSE GenotypeAt(k, site.position, j)
          ELSE \A j \in DOMAIN Block(site, k) : Block(site, k)[j] = MISSING_DATA

\* An output with a site one file does not hold, and a site at which a file's
\* derived allele is new and its genotype 1 was marked missing
C4_Witness ==
  /\ CombineDone
  /\ \E r \in DOMAIN samples.sites : \E k \in Files :
       ~Holds(k, <<samples.sites[r].position, samples.sites[r].alleles[1]>>)
  /\ \E r \in DOMAIN samples.sites : \E k \in Files :
       /\ Holds(k, <<samples.sites[r].position, samples.sites[r].alleles[1]>>)
       /\ NewDerived(samples.sites[r], k)
       /\ \E j \in DOMAIN Block(samples.sites[r], k) :
            /\ GenotypeAt(k, samples.sites[r].position, j) = 1
            /\ Block(samples.sites[r], k)[j] = MISSING_DATA

\* C5: every site position merge-sampledata writes is a site position of
\* every input file.
C5_OnlySharedPositions ==
  command = "merge-sampledata" =>
    \A r \in DOMAIN samples.sites : \A i \in Files :
      samples.sites[r].position \in PositionsOf(sampledata_files[i])

\* A merge that wrote a site and left out a position one file holds alone
C5_Witness ==
  /\ MergeDone
  /\ Len(samples.sites) >= 1
  /\ Union # Intersection

\* A file listed after the first has another sequence length than the first
LengthMismatch ==
  \E i \in Files : sampledata_files[i].sequence_length # sampledata_files[1].sequence_length

\* C6: once combine-sampledata or merge-sampledata has loaded a file whose
\* sequence length differs from the first file's, it has failed its assertion
\* on loading that file, and the output file is not created: no population,
\* individual or site is added.
C6_MismatchAborts ==
  (command \in {"combine-sampledata", "merge-sampledata"} /\ LengthMismatch) =>
    /\ pc = "AssertionError"
    /\ samples = NoOutput
    /\ \A i \in Files : i < Len(sampledata_files) =>
         sampledata_files[i].sequence_length = sampledata_files[1].sequence_length

\* A combination that failed on its second file
C6_Witness ==
  /\ command = "combine-sampledata"
  /\ LengthMismatch
  /\ pc = "AssertionError"
  /\ Len(sampledata_files) = 2

\* C7: when make-sampledata-compatible has handled every input file, it
\* completes, and the output path holds the names of the new files, one per
\* input file after the first, in input order.
C7_NamesWritten ==
  (command = "make-sampledata-compatible" /\ pc # "start") =>
    /\ pc = "done"
    /\ newfile = [i \in 1..(num_inputs - 1) |-> DeletedName(i)]

\* C8: the benchmarks report min(N, number of records) when --num-variants N
\* is given, and the number of records when it is not.
C8_ReportedCount ==
  (command \in {"benchmark-tskit", "benchmark-vcf"} /\ pc = "done") =>
    reported = <<IF num_variants = <<>> THEN num_records
                 ELSE Min(num_variants[1], num_records)>>

\* C9: every site merge-sampledata writes carries the ancestral allele the
\* input files record at its position, and a derived allele that an input
\* file records there.
C9_AllelesOfPosition ==
  MergeDone =>
    \A r \in DOMAIN samples.sites :
      LET site == samples.sites[r]
      IN  /\ site.position \in Intersection
          /\ site.alleles[1] = AncestralAt(sampledata_files[1], site.position)
          /\ site.alleles[2] \in
               {DerivedAt(sampledata_files[i], site.position) : i \in Files}

====
